---- MODULE Spec2Model ----
(***************************************************************************)
(* Model of src/src/component.py: the Component base class and the         *)
(* BadComponentInit exception type.                                        *)
(*                                                                         *)
(* A component instance is its attribute dictionary (attrs).  Each public  *)
(* method is a pure operator from the instance and the method's inputs    *)
(* (arguments and the values returned by the collaborators it calls) to   *)
(* a result record                                                         *)
(*    [attrs, events, outcome, status]                                     *)
(* where events is the ordered list of observable effects of the call      *)
(* (calls on the controller, the parent and the subclass hooks, prints,    *)
(* signal emissions, quit), outcome is "return", "KeyError" or "exit" and  *)
(* status is the exit status when outcome = "exit".  One action per method *)
(* applies the operator to the current state.                              *)
(*                                                                         *)
(* Python strings that the code takes apart (the command-line token, the   *)
(* preset directory, paths) are sequences of one-character strings.        *)
(* None is the value None; preset identifiers are atomic strings.          *)
(***************************************************************************)
EXTENDS Integers, Sequences, FiniteSets, TLC

VARIABLES
    attrs,          \* the instance's attribute dictionary (self.__dict__)
    running,        \* FALSE once quit() has terminated the process
    exitStatus,     \* the exit status, meaningful when ~running
    call,           \* the most recent call: [op, args]
    pre,            \* attrs as they were when the most recent call started
    events,         \* the ordered observable effects of the most recent call
    outcome,        \* how the most recent call ended
    lastCancelReset \* the most recent call among cancel()/reset(), or "none"

vars == <<attrs, running, exitStatus, call, pre, events, outcome,
          lastCancelReset>>

----------------------------------------------------------------------------
(* Bounds of the model *)

MaxPos == 1         \* compPos ranges over 0..MaxPos
MaxNameLen == 2     \* longest preset name given on the command line
MaxKwargs == 2      \* most keyword arguments in one preFrameRender call

----------------------------------------------------------------------------
(* Values *)

None == "None"

PresetNames == {"p1", "p2"}

Cores == {"core"}

ModuleIndexes == {0, 1}

\* dictionaries (Python dict) are functions from keys to values
EmptyDict == <<>>

DictSet(d, k, v) == [x \in DOMAIN d \cup {k} |-> IF x = k THEN v ELSE d[x]]

\* what a subclass's savePreset() may return
SaveStores ==
    { EmptyDict,
      [x \in {"color"} |-> "red"],
      [x \in {"preset"} |-> "p1"],
      [x \in {"preset", "color"} |-> IF x = "preset" THEN "p2" ELSE "red"] }

\* dictionaries handed to loadPreset by a caller
PresetDicts ==
    { EmptyDict, [x \in {"color"} |-> "red"] }
    \cup { [x \in {"preset"} |-> p] : p \in PresetNames \cup {None} }

----------------------------------------------------------------------------
(* Strings as character sequences *)

PresetPrefix == <<"p", "r", "e", "s", "e", "t", "=">>

NameChars == {"a", "="}

RECURSIVE StrsUpTo(_, _)
StrsUpTo(chars, n) ==
    IF n = 0 THEN {<<>>}
    ELSE LET shorter == StrsUpTo(chars, n - 1)
         IN shorter \cup {Append(s, c) : s \in shorter, c \in chars}

\* relative names, and one absolute name
CommandNames == StrsUpTo(NameChars, MaxNameLen) \cup { <<"/", "a">> }

CommandArgs ==
    {PresetPrefix \o n : n \in CommandNames}
    \cup { <<>>,
           <<"p", "r", "e", "s", "e", "t">>,
           <<"P", "r", "e", "s", "e", "t", "=", "a">>,
           <<"a", "=", "a">>,
           <<" ", "p", "r", "e", "s", "e", "t", "=", "a">> }

PresetDirs == { <<"d">>, <<"d", "/">> }

\* str.startswith
startswith(s, prefix) ==
    /\ Len(s) >= Len(prefix)
    /\ SubSeq(s, 1, Len(prefix)) = prefix

\* variant: str.rsplit(sep, 1), which cuts at the last separator
split1_AtLast(s, sep) ==
    IF \E i \in 1..Len(s) : s[i] = sep
    THEN LET i == CHOOSE i \in 1..Len(s) :
                    /\ s[i] = sep
                    /\ \A j \in (i + 1)..Len(s) : s[j] # sep
         IN <<SubSeq(s, 1, i - 1), SubSeq(s, i + 1, Len(s))>>
    ELSE <<s>>

\* str.split(sep, 1) for a one-character separator
split1(s, sep) ==
    IF \E i \in 1..Len(s) : s[i] = sep
    THEN LET i == CHOOSE i \in 1..Len(s) :
                    /\ s[i] = sep
                    /\ \A j \in 1..(i - 1) : s[j] # sep
         IN <<SubSeq(s, 1, i - 1), SubSeq(s, i + 1, Len(s))>>
    ELSE <<s>>

\* os.path.join(a, p) on a POSIX system
os_path_join(a, p) ==
    IF Len(p) > 0 /\ p[1] = "/" THEN p
    ELSE IF a = <<>> \/ a[Len(a)] = "/" THEN a \o p
    ELSE a \o <<"/">> \o p

----------------------------------------------------------------------------
(* Component.__init__ *)

\* variant: moduleIndex and compPos stored the wrong way round
ComponentInit_Swapped(moduleIndex, compPos, core) ==
    [k \in {"currentPreset", "canceled", "moduleIndex", "compPos", "core"} |->
        CASE k = "currentPreset" -> None
          [] k = "canceled" -> FALSE
          [] k = "moduleIndex" -> compPos
          [] k = "compPos" -> moduleIndex
          [] k = "core" -> core]

ComponentInit(moduleIndex, compPos, core) ==
    [k \in {"currentPreset", "canceled", "moduleIndex", "compPos", "core"} |->
        CASE k = "currentPreset" -> None
          [] k = "canceled" -> FALSE
          [] k = "moduleIndex" -> moduleIndex
          [] k = "compPos" -> compPos
          [] k = "core" -> core]

Init ==
    /\ \E moduleIndex \in ModuleIndexes, compPos \in 0..MaxPos, core \in Cores :
          /\ attrs = ComponentInit(moduleIndex, compPos, core)
          /\ call = [op |-> "__init__", args |-> <<moduleIndex, compPos, core>>]
    /\ running = TRUE
    /\ exitStatus = 0
    /\ pre = attrs
    /\ events = <<>>
    /\ outcome = "return"
    /\ lastCancelReset = "none"

----------------------------------------------------------------------------
(* Results of a call *)

Result(a, ev, oc, st) ==
    [attrs |-> a, events |-> ev, outcome |-> oc, status |-> st]

----------------------------------------------------------------------------
(* Component.cancel and Component.reset *)

cancel(self) ==
    Result([self EXCEPT !["canceled"] = TRUE], <<>>, "return", 0)

\* variant: reset toggles the flag instead of clearing it
reset_Toggle(self) ==
    Result([self EXCEPT !["canceled"] = ~self["canceled"]], <<>>, "return", 0)

reset(self) ==
    Result([self EXCEPT !["canceled"] = FALSE], <<>>, "return", 0)

----------------------------------------------------------------------------
(* Component.update: store is what the subclass's savePreset() returns.    *)
(* self.parent, self.savePreset and self.modified are supplied by the      *)
(* subclass (class docstring and the reference widget method).             *)

\* variant: the store's own 'preset' entry is kept when it has one
update_KeepEntry(self, store) ==
    LET saveValueStore ==
            IF "preset" \in DOMAIN store THEN store
            ELSE DictSet(store, "preset", self["currentPreset"])
    IN Result(self,
              << <<"drawPreview">>,
                 <<"savePreset", store>>,
                 <<"emit", self["compPos"], saveValueStore>> >>,
              "return", 0)

\* variant: the 'preset' entry is never written
update_NoEntry(self, store) ==
    Result(self,
           << <<"drawPreview">>,
              <<"savePreset", store>>,
              <<"emit", self["compPos"], store>> >>,
           "return", 0)

update(self, store) ==
    LET saveValueStore == DictSet(store, "preset", self["currentPreset"])
    IN Result(self,
              << <<"drawPreview">>,
                 <<"savePreset", store>>,
                 <<"emit", self["compPos"], saveValueStore>> >>,
              "return", 0)

----------------------------------------------------------------------------
(* Component.loadPreset *)

\* variant: the dictionary's 'preset' entry wins over presetName
loadPreset_DictFirst(self, presetDict, presetName) ==
    IF "preset" \in DOMAIN presetDict
    THEN Result([self EXCEPT !["currentPreset"] = presetDict["preset"]],
                <<>>, "return", 0)
    ELSE IF presetName # None
    THEN Result([self EXCEPT !["currentPreset"] = presetName],
                <<>>, "return", 0)
    ELSE Result(self, <<>>, "KeyError", 0)

loadPreset(self, presetDict, presetName) ==
    IF presetName # None
    THEN Result([self EXCEPT !["currentPreset"] = presetName],
                <<>>, "return", 0)
    ELSE IF "preset" \in DOMAIN presetDict
    THEN Result([self EXCEPT !["currentPreset"] = presetDict["preset"]],
                <<>>, "return", 0)
    ELSE Result(self, <<>>, "KeyError", 0)

----------------------------------------------------------------------------
(* Component.preFrameRender: setattr(self, key, value) for every keyword   *)

\* variant: only attributes the instance already has are assigned
preFrameRender_ExistingOnly(self, kwargs) ==
    Result([k \in DOMAIN self |->
               IF k \in DOMAIN kwargs THEN kwargs[k] ELSE self[k]],
           <<>>, "return", 0)

preFrameRender(self, kwargs) ==
    Result([k \in DOMAIN self \cup DOMAIN kwargs |->
               IF k \in DOMAIN kwargs THEN kwargs[k] ELSE self[k]],
           <<>>, "return", 0)

KwKeys == {"worker", "canceled", "compPos", "currentPreset", "core"}

KwVals(k) ==
    CASE k = "worker" -> {"videoWorker"}
      [] k = "canceled" -> BOOLEAN
      [] k = "compPos" -> 0..MaxPos
      [] k = "currentPreset" -> PresetNames \cup {None}
      [] k = "core" -> {"otherCore"}

RECURSIVE KwDicts(_)
KwDicts(keys) ==
    IF keys = {} THEN {EmptyDict}
    ELSE LET k == CHOOSE k \in keys : TRUE
         IN {DictSet(d, k, v) : d \in KwDicts(keys \ {k}), v \in KwVals(k)}

----------------------------------------------------------------------------
(* Component.commandHelp and Component.command.  dir is what               *)
(* core.getPresetDir(self) returns and exists what os.path.exists(path)    *)
(* answers.                                                                *)

commandHelp == << <<"commandHelp">> >>

\* variant: a missing preset is reported but the preset is opened anyway
command_NoQuit(self, arg, dir, exists) ==
    IF startswith(arg, PresetPrefix)
    THEN LET preset == split1(arg, "=")[2]
             path == os_path_join(dir, preset)
             lookup == << <<"getPresetDir", dir>>,
                          <<"os.path.exists", path, exists>> >>
             missing == IF exists THEN <<>>
                        ELSE << <<"print", "Couldn't locate preset", preset>> >>
         IN Result(self,
                   lookup \o missing
                      \o << <<"print", "Opening preset on layer",
                              preset, self["compPos"]>>,
                            <<"openPreset", path, self["compPos"], preset>> >>,
                   "return", 0)
    ELSE Result(self,
                << <<"print", "Usage">> >> \o commandHelp
                    \o << <<"quit", 0>> >>,
                "exit", 0)

\* variant: the usage branch quits without calling commandHelp
command_NoHelp(self, arg, dir, exists) ==
    IF startswith(arg, PresetPrefix)
    THEN LET preset == split1(arg, "=")[2]
             path == os_path_join(dir, preset)
             lookup == << <<"getPresetDir", dir>>,
                          <<"os.path.exists", path, exists>> >>
         IN IF ~exists
            THEN Result(self,
                        lookup \o << <<"print", "Couldn't locate preset", preset>>,
                                     <<"quit", 1>> >>,
                        "exit", 1)
            ELSE Result(self,
                        lookup \o << <<"print", "Opening preset on layer",
                                       preset, self["compPos"]>>,
                                     <<"openPreset", path, self["compPos"],
                                       preset>> >>,
                        "return", 0)
    ELSE Result(self,
                << <<"print", "Usage">>, <<"quit", 0>> >>,
                "exit", 0)

command(self, arg, dir, exists) ==
    IF startswith(arg, PresetPrefix)
    THEN LET preset == split1(arg, "=")[2]
             path == os_path_join(dir, preset)
             lookup == << <<"getPresetDir", dir>>,
                          <<"os.path.exists", path, exists>> >>
         IN IF ~exists
            THEN Result(self,
                        lookup \o << <<"print", "Couldn't locate preset", preset>>,
                                     <<"quit", 1>> >>,
                        "exit", 1)
            ELSE Result(self,
                        lookup \o << <<"print", "Opening preset on layer",
                                       preset, self["compPos"]>>,
                                     <<"openPreset", path, self["compPos"],
                                       preset>> >>,
                        "return", 0)
    ELSE Result(self,
                << <<"print", "Usage">> >> \o commandHelp
                    \o << <<"quit", 0>> >>,
                "exit", 0)

----------------------------------------------------------------------------
(* BadComponentInit.__init__: print, then quit() with no status, which     *)
(* exits with status 0; the constructor never returns.                     *)

MandatoryArgs == {"core", "parent"}

ComponentClasses == {"Color", "Image"}

\* variant: the message is printed and the constructor returns
BadComponentInit_Returns(self, arg, name) ==
    Result(self,
           << <<"print", "Mandatory argument not specified", arg, name>> >>,
           "return", 0)

BadComponentInit(self, arg, name) ==
    Result(self,
           << <<"print", "Mandatory argument not specified", arg, name>>,
              <<"quit">> >>,
           "exit", 0)

----------------------------------------------------------------------------
(* Actions: one per operation, applied to the running process *)

Apply(op, args, r) ==
    /\ running
    /\ attrs' = r.attrs
    /\ pre' = attrs
    /\ call' = [op |-> op, args |-> args]
    /\ events' = r.events
    /\ outcome' = r.outcome
    /\ running' = (r.outcome # "exit")
    /\ exitStatus' = r.status
    /\ lastCancelReset' = IF op \in {"cancel", "reset"} THEN op
                          ELSE lastCancelReset

Cancel == Apply("cancel", <<>>, cancel(attrs))

Reset == Apply("reset", <<>>, reset(attrs))

Update ==
    \E store \in SaveStores :
        Apply("update", <<store>>, update(attrs, store))

\* the store emitted by the call that has just returned, if it was update()
EmittedStores ==
    {events[i][3] : i \in {j \in 1..Len(events) : events[j][1] = "emit"}}

LoadPreset ==
    \E presetDict \in PresetDicts, presetName \in PresetNames \cup {None} :
        Apply("loadPreset", <<presetDict, presetName, FALSE>>,
              loadPreset(attrs, presetDict, presetName))

\* the receiver of the modified signal hands the emitted store back
LoadEmittedPreset ==
    \E presetDict \in EmittedStores :
        Apply("loadPreset", <<presetDict, None, TRUE>>,
              loadPreset(attrs, presetDict, None))

PreFrameRender ==
    \E keys \in {K \in SUBSET KwKeys : Cardinality(K) <= MaxKwargs} :
        \E kwargs \in KwDicts(keys) :
            Apply("preFrameRender", <<kwargs>>, preFrameRender(attrs, kwargs))

Command ==
    \E arg \in CommandArgs, dir \in PresetDirs, exists \in BOOLEAN :
        Apply("command", <<arg>>, command(attrs, arg, dir, exists))

RaiseBadComponentInit ==
    \E arg \in MandatoryArgs, name \in ComponentClasses :
        Apply("BadComponentInit", <<arg, name>>,
              BadComponentInit(attrs, arg, name))

Next ==
    \/ Cancel
    \/ Reset
    \/ Update
    \/ LoadPreset
    \/ LoadEmittedPreset
    \/ PreFrameRender
    \/ Command
    \/ RaiseBadComponentInit

Spec == Init /\ [][Next]_vars

\* the sequences of cancel, reset, update, loadPreset and command calls
NextBase ==
    \/ Cancel
    \/ Reset
    \/ Update
    \/ LoadPreset
    \/ LoadEmittedPreset
    \/ Command

SpecBase == Init /\ [][NextBase]_vars

----------------------------------------------------------------------------
(* Reading the record of the most recent call *)

\* the positions of the events of one kind
At(kind) == {i \in 1..Len(events) : events[i][1] = kind}

\* the position of the only event of a kind
The(kind) == CHOOSE i \in At(kind) : TRUE

Once(kind) == Cardinality(At(kind)) = 1

Never(kind) == At(kind) = {}

IsPresetCommand ==
    /\ call.op = "command"
    /\ startswith(call.args[1], PresetPrefix)

\* the remainder of the token after "preset="
TokenName == SubSeq(call.args[1], Len(PresetPrefix) + 1, Len(call.args[1]))

\* the path looked up: the controller's preset directory joined with the name
TokenPath == os_path_join(events[The("getPresetDir")][2], TokenName)

PathLookedUp ==
    /\ Once("getPresetDir")
    /\ Once("os.path.exists")
    /\ events[The("os.path.exists")][2] = TokenPath

PathExists == PathLookedUp /\ events[The("os.path.exists")][3]

PathMissing == PathLookedUp /\ ~events[The("os.path.exists")][3]

ConstructorAttrs == {"moduleIndex", "compPos", "core"}

----------------------------------------------------------------------------
(* C1: a command "preset=<name>" whose path (the controller's preset       *)
(* directory joined with <name>) does not exist terminates the process     *)
(* with exit status 1, never calls core.openPreset and changes no          *)
(* attribute of the component.                                             *)

C1_MissingPresetExits ==
    (IsPresetCommand /\ ~PathExists) =>
        /\ PathMissing
        /\ ~running
        /\ outcome = "exit"
        /\ exitStatus = 1
        /\ Once("quit")
        /\ events[The("quit")] = <<"quit", 1>>
        /\ The("quit") = Len(events)
        /\ Never("openPreset")
        /\ attrs = pre

C1_Witness ==
    /\ IsPresetCommand
    /\ PathMissing
    /\ TokenName = <<"a">>
    /\ ~running

(* C2: a command "preset=<name>" whose path exists calls core.openPreset   *)
(* exactly once with (path, compPos, name), name being everything after    *)
(* the first '=' and path the preset directory joined with name; the       *)
(* process keeps running and command returns.                              *)

C2_ExistingPresetOpened ==
    (IsPresetCommand /\ ~PathMissing) =>
        /\ PathExists
        /\ running
        /\ outcome = "return"
        /\ Never("quit")
        /\ Once("openPreset")
        /\ events[The("openPreset")] =
               <<"openPreset", TokenPath, pre["compPos"], TokenName>>
        /\ The("openPreset") > The("os.path.exists")

C2_Witness ==
    /\ IsPresetCommand
    /\ PathExists
    /\ TokenName = <<"a", "=">>
    /\ Once("openPreset")
    /\ running

(* C3: a command whose token does not start with "preset=" prints the      *)
(* usage text, calls commandHelp exactly once and before quitting, exits   *)
(* with status 0 and calls neither core.getPresetDir nor core.openPreset.  *)

C3_UsageThenHelpThenExit ==
    (call.op = "command" /\ ~startswith(call.args[1], PresetPrefix)) =>
        /\ Once("print")
        /\ events[The("print")] = <<"print", "Usage">>
        /\ Once("commandHelp")
        /\ Once("quit")
        /\ The("print") < The("commandHelp")
        /\ The("commandHelp") < The("quit")
        /\ The("quit") = Len(events)
        /\ events[The("quit")] = <<"quit", 0>>
        /\ ~running
        /\ outcome = "exit"
        /\ exitStatus = 0
        /\ Never("getPresetDir")
        /\ Never("openPreset")

C3_Witness ==
    /\ call.op = "command"
    /\ call.args[1] = <<"p", "r", "e", "s", "e", "t">>
    /\ Once("commandHelp")
    /\ ~running

(* C4 as stated: after __init__ no call of cancel, reset, update,          *)
(* loadPreset, preFrameRender or command changes moduleIndex, compPos or   *)
(* core.                                                                   *)

C4_NoOperationChangesConstructorAttrs ==
    /\ call.op = "__init__" =>
           /\ attrs["moduleIndex"] = call.args[1]
           /\ attrs["compPos"] = call.args[2]
           /\ attrs["core"] = call.args[3]
    /\ call.op # "__init__" =>
           \A k \in ConstructorAttrs : attrs[k] = pre[k]

(* C4 amended: __init__ stores its three arguments; cancel, reset, update, *)
(* loadPreset and command never change moduleIndex, compPos or core, and   *)
(* preFrameRender changes one of them only when it is given as a keyword.  *)

C4_OnlyKeywordsChangeConstructorAttrs ==
    /\ call.op = "__init__" =>
           /\ attrs["moduleIndex"] = call.args[1]
           /\ attrs["compPos"] = call.args[2]
           /\ attrs["core"] = call.args[3]
    /\ call.op \notin {"__init__", "preFrameRender"} =>
           \A k \in ConstructorAttrs : attrs[k] = pre[k]
    /\ call.op = "preFrameRender" =>
           \A k \in ConstructorAttrs \ DOMAIN call.args[1] : attrs[k] = pre[k]

C4_Witness ==
    /\ call.op = "preFrameRender"
    /\ DOMAIN call.args[1] = {"compPos", "worker"}
    /\ attrs["compPos"] # pre["compPos"]
    /\ attrs["core"] = pre["core"]

(* C5: update() calls parent.drawPreview(), then savePreset(), then emits  *)
(* 'modified' exactly once; the payload is (compPos, store) where store is *)
(* what savePreset() returned with its 'preset' entry set to currentPreset,*)
(* overwriting any 'preset' entry savePreset() put there.                  *)

C6_BadComponentInitTerminates ==
    call.op = "BadComponentInit" =>
        /\ Once("print")
        /\ events[The("print")] =
               <<"print", "Mandatory argument not specified",
                 call.args[1], call.args[2]>>
        /\ Once("quit")
        /\ The("print") < The("quit")
        /\ outcome = "exit"
        /\ ~running

C6_Witness ==
    /\ call.op = "BadComponentInit"
    /\ call.args = <<"core", "Color">>
    /\ Once("print")

(* C7: after preFrameRender called with keywords, every keyword is an     *)
(* attribute with the value given and every other attribute is unchanged. *)

C7_KeywordsBecomeAttributes ==
    call.op = "preFrameRender" =>
        LET kwargs == call.args[1]
        IN /\ DOMAIN attrs = DOMAIN pre \cup DOMAIN kwargs
           /\ \A k \in DOMAIN kwargs : attrs[k] = kwargs[k]
           /\ \A k \in DOMAIN pre \ DOMAIN kwargs : attrs[k] = pre[k]
           /\ outcome = "return"

C7_Witness ==
    /\ call.op = "preFrameRender"
    /\ DOMAIN call.args[1] = {"worker", "currentPreset"}
    /\ "worker" \notin DOMAIN pre
    /\ pre["currentPreset"] # call.args[1]["currentPreset"]

(* C8: over sequences of cancel, reset, update, loadPreset and command     *)
(* calls the flag is false after construction and true exactly when a      *)
(* cancel() has been called and the latest of the cancel()/reset() calls   *)
(* was cancel(); cancel and reset are idempotent and change no attribute   *)
(* other than canceled.                                                    *)

C8_CanceledTracksLastCancelReset ==
    /\ attrs["canceled"] = (lastCancelReset = "cancel")
    /\ call.op = "__init__" => attrs["canceled"] = FALSE
    /\ call.op = "cancel" => attrs = [pre EXCEPT !["canceled"] = TRUE]
    /\ call.op = "reset" => attrs = [pre EXCEPT !["canceled"] = FALSE]
    /\ call.op \in {"update", "loadPreset", "command"} =>
           attrs["canceled"] = pre["canceled"]
    /\ cancel(cancel(attrs).attrs) = cancel(attrs)
    /\ reset(reset(attrs).attrs) = reset(attrs)

C8_Witness ==
    /\ call.op = "reset"
    /\ pre["canceled"] = TRUE
    /\ attrs["canceled"] = FALSE
    /\ attrs["currentPreset"] # None

(* C9 as stated: currentPreset is None after construction; loadPreset sets *)
(* it to presetName when that is not None, else to presetDict['preset'],   *)
(* and fails leaving it unchanged when that entry is missing; no operation *)
(* other than loadPreset changes currentPreset.                            *)

LoadPresetContract ==
    /\ call.op = "__init__" => attrs["currentPreset"] = None
    /\ call.op = "loadPreset" =>
           LET presetDict == call.args[1]
               presetName == call.args[2]
           IN /\ presetName # None =>
                     /\ attrs["currentPreset"] = presetName
                     /\ outcome = "return"
              /\ (presetName = None /\ "preset" \in DOMAIN presetDict) =>
                     /\ attrs["currentPreset"] = presetDict["preset"]
                     /\ outcome = "return"
              /\ (presetName = None /\ "preset" \notin DOMAIN presetDict) =>
                     /\ outcome = "KeyError"
                     /\ attrs["currentPreset"] = pre["currentPreset"]
              /\ \A k \in DOMAIN pre \ {"currentPreset"} : attrs[k] = pre[k]

C9_OnlyLoadPresetChangesCurrentPreset ==
    /\ LoadPresetContract
    /\ call.op \notin {"__init__", "loadPreset"} =>
           attrs["currentPreset"] = pre["currentPreset"]

(* C9 amended: as stated, except that besides loadPreset a preFrameRender  *)
(* call given a currentPreset keyword also changes currentPreset; no other *)
(* operation does.                                                         *)

C9_LoadPresetOrKeywordChangesCurrentPreset ==
    /\ LoadPresetContract
    /\ call.op \notin {"__init__", "loadPreset", "preFrameRender"} =>
           attrs["currentPreset"] = pre["currentPreset"]
    /\ (call.op = "preFrameRender"
            /\ "currentPreset" \notin DOMAIN call.args[1]) =>
           attrs["currentPreset"] = pre["currentPreset"]

C9_Witness ==
    /\ call.op = "loadPreset"
    /\ call.args[2] = None
    /\ "preset" \notin DOMAIN call.args[1]
    /\ outcome = "KeyError"
    /\ attrs["currentPreset"] = "p1"

(* C10: the store emitted by update(), passed back as                      *)
(* loadPreset(store, None), is accepted and leaves currentPreset as it was *)
(* when update() was called, also when currentPreset is None.              *)

C10_EmittedStoreRoundTrips ==
    (call.op = "loadPreset" /\ call.args[3]) =>
        /\ call.args[2] = None
        /\ outcome = "return"
        /\ attrs["currentPreset"] = pre["currentPreset"]
        /\ attrs = pre

C10_Witness ==
    /\ call.op = "loadPreset"
    /\ call.args[3]
    /\ "color" \in DOMAIN call.args[1]
    /\ attrs["currentPreset"] = None
    /\ outcome = "return"

====
